---- MODULE Spec2Model ----
(***************************************************************************)
(* Model of the fast_ICA utilities:                                        *)
(*   src/utils/config_parser/config.py  (ConfigManager, get_config, main)  *)
(*   src/utils/total_time.py            (calculate_total_time)             *)
(***************************************************************************)
EXTENDS Integers, Sequences, FiniteSets, TLC

VARIABLES
    \* ---- _deep_merge called on two (three) configuration trees
    dest,       \* the dict merged into (mutated in place)
    dest0,      \* dest as it was before the call
    source,     \* the dict merged from
    source2,    \* a third dict (associativity runs)
    alt,        \* the right-nested result merge(A, merge(B, C))
    order,      \* iteration order of source.items()
    mpc,        \* position of the merge run
    \* ---- calculate_total_time
    line,           \* the line read last
    total_seconds,  \* the running total
    total_hours,    \* the value returned: a fraction <<numerator, denominator>>
    nread,          \* lines read so far
    tpc,            \* "loop", "done", or "raised" (an exception left the function)
    claimed,        \* sum of the tokens between the first '(' and the first 's' after it
    expected,       \* sum of the parseable tokens as the code slices them
    sawBad,         \* a line with '(' and 's' whose token is no number was handled
    goodAfterBad,   \* after such a line, a line with a parseable token was handled
    \* ---- config.py: the command line and the ConfigManager
    args,           \* the parsed command line
    environ_config, \* os.environ.get("FAST_ICA_CONFIG")
    detected,       \* what _detect_environment returns on this machine
    base_file,      \* the file at DEFAULT_CONFIG_FILE
    custom_file,    \* the file at the override path
    config,         \* self.config
    env,            \* self.env
    impl_config,    \* impl_config of main
    cpc,            \* position of the run
    exit_status,    \* the process's exit status once cpc = "exited"
    uncaught,       \* the exception that ended the run ("none" if none did)
    stdout,         \* what was printed
    temp_files,     \* the contents of the transfer files created
    written,        \* the mapping the last call wrote to a transfer file
    log,            \* the messages logged at WARNING or above
    handler,        \* a file handler was added to the root logger
    called,         \* the accessor called last, with its argument
    ret             \* what it returned or raised

mergeVars == <<dest, dest0, source, source2, alt, order, mpc>>
timeVars == <<line, total_seconds, total_hours, nread, tpc, claimed, expected, sawBad,
              goodAfterBad>>

configVars == <<args, environ_config, detected, base_file, custom_file, config, env,
                impl_config, cpc, exit_status, uncaught, stdout, temp_files, written, log,
                handler, called, ret>>

vars == <<mergeVars, timeVars, configVars>>

\* the components a run does not use
MergeIdle ==
    /\ dest = [t |-> "none", v |-> 0] /\ dest0 = dest /\ source = dest
    /\ source2 = dest /\ alt = dest /\ order = <<>> /\ mpc = "idle"
TimeIdle ==
    /\ line = <<>> /\ total_seconds = 0 /\ total_hours = <<0, 1>> /\ nread = 0
    /\ tpc = "idle" /\ claimed = 0 /\ expected = 0 /\ sawBad = FALSE
    /\ goodAfterBad = FALSE
ConfigIdle ==
    /\ args = [implementation |-> "None", config |-> "None", env |-> "None",
               export_matlab |-> FALSE]
    /\ environ_config = "None" /\ detected = "local"
    /\ base_file = [kind |-> "missing", value |-> [t |-> "none", v |-> 0]] /\ custom_file = [kind |-> "missing", value |-> [t |-> "none", v |-> 0]]
    /\ config = [t |-> "none", v |-> 0] /\ env = "None" /\ impl_config = [t |-> "none", v |-> 0]
    /\ cpc = "idle" /\ exit_status = 0 /\ uncaught = "none"
    /\ stdout = <<>> /\ temp_files = {} /\ written = [t |-> "none", v |-> 0] /\ log = {} /\ handler = FALSE
    /\ called = <<>> /\ ret = [raised |-> "none", val |-> [t |-> "none", v |-> 0]]

----------------------------------------------------------------------------
(* Python values of a configuration tree, as yaml.safe_load produces them:  *)
(* a tag and a payload, so that isinstance(x, dict) is a test of the tag.   *)

\* None (an empty YAML document)
NoneV == [t |-> "none", v |-> 0]

\* a number
Scalar(x) == [t |-> "s", v |-> x]

\* a str
Str(x) == [t |-> "str", v |-> x]

\* a list
ListV(xs) == [t |-> "l", v |-> xs]

\* a dict: a function from its keys to values
Dict(f) == [t |-> "m", v |-> f]

\* {}
EmptyMap == [k \in {} |-> 0]

\* isinstance(x, dict)
IsDict(x) == x.t = "m"

\* key in d      (d a dict)
Has(d, key) == key \in DOMAIN d.v

\* d[key] = value
SetItem(d, key, value) == Dict((key :> value) @@ d.v)

RECURSIVE SetToSeq(_)
SetToSeq(S) ==
    IF S = {} THEN <<>>
    ELSE LET x == CHOOSE y \in S : TRUE IN <<x>> \o SetToSeq(S \ {x})

\* source.items(): the keys of source in iteration order, which is the order
\* ord on the keys it lists
Items(src, ord) ==
    SelectSeq(ord, LAMBDA k : k \in DOMAIN src.v) \o
    SetToSeq(DOMAIN src.v \ {ord[i] : i \in 1..Len(ord)})

----------------------------------------------------------------------------
(* ConfigManager._deep_merge                                                *)

\* mutant: a collision of two dicts replaces dest's dict instead of recursing
MergeItemShallow(d, key, value, rec) == SetItem(d, key, value)

\* one iteration of the loop body; rec is the result of the recursive call
MergeItem(d, key, value, rec) ==
    IF Has(d, key) /\ IsDict(d.v[key]) /\ IsDict(value)
    THEN SetItem(d, key, rec)      \* dest[key] was merged in place
    ELSE SetItem(d, key, value)

RECURSIVE _deep_merge(_, _, _), MergeLoop(_, _, _, _)

\* mutant: the loop returns after its first item
MergeLoopFirstOnly(d, src, keys, ord) ==
    IF keys = <<>> THEN d
    ELSE LET key == Head(keys)
             value == src.v[key]
             rec == IF Has(d, key) /\ IsDict(d.v[key]) /\ IsDict(value)
                    THEN _deep_merge(d.v[key], value, ord)
                    ELSE value
         IN MergeItem(d, key, value, rec)

\* for key, value in source.items(): ...   over the remaining keys
MergeLoop(d, src, keys, ord) ==
    IF keys = <<>> THEN d
    ELSE LET key == Head(keys)
             value == src.v[key]
             rec == IF Has(d, key) /\ IsDict(d.v[key]) /\ IsDict(value)
                    THEN _deep_merge(d.v[key], value, ord)
                    ELSE value
         IN MergeLoop(MergeItem(d, key, value, rec), src, Tail(keys), ord)

\* dest after self._deep_merge(dest, source), both dicts
_deep_merge(d, src, ord) == MergeLoop(d, src, Items(src, ord), ord)

----------------------------------------------------------------------------
(* Bounded sets of configuration trees                                      *)

MaxSize == 3        \* entries (keys at any depth) of a tree, pair runs
AssocSize == 2      \* entries of a tree, associativity runs

Keys == {"a", "b"}
Leaves == {Scalar(1), Scalar(2), ListV(<<1>>)}
AssocLeaves == {Scalar(1), ListV(<<1>>)}
KeyOrders == {<<"a", "b">>, <<"b", "a">>}

RECURSIVE Size(_), SizeOver(_, _)
SizeOver(f, ks) ==
    IF ks = {} THEN 0
    ELSE LET k == CHOOSE x \in ks : TRUE
         IN 1 + Size(f[k]) + SizeOver(f, ks \ {k})
Size(x) == IF IsDict(x) THEN SizeOver(x.v, DOMAIN x.v) ELSE 0

RECURSIVE Fill(_, _, _), Maps(_, _)
\* the functions on subsets of keys whose values have at most n entries in all
Fill(keys, n, leaves) ==
    IF keys = {} THEN {EmptyMap}
    ELSE LET k == CHOOSE x \in keys : TRUE
             rest == keys \ {k}
         IN Fill(rest, n, leaves) \cup
            (IF n = 0 THEN {}
             ELSE UNION { { (k :> val) @@ f : f \in Fill(rest, n - 1 - Size(val), leaves) }
                          : val \in leaves \cup Maps(n - 1, leaves) })
\* the dicts of at most n entries, with leaves from the given set
Maps(n, leaves) == { Dict(f) : f \in Fill(Keys, n, leaves) }

MergeTrees == Maps(MaxSize, Leaves)
AssocTrees == Maps(AssocSize, AssocLeaves)

----------------------------------------------------------------------------
(* Runs of _deep_merge on a pair of trees                                   *)

InitMerge ==
    /\ dest0 \in MergeTrees
    /\ source \in MergeTrees
    /\ order \in KeyOrders
    /\ dest = dest0
    /\ source2 = Dict(EmptyMap)
    /\ alt = NoneV
    /\ mpc = "start"
    /\ TimeIdle /\ ConfigIdle

\* self._deep_merge(dest, source)
DeepMergeCall ==
    /\ mpc = "start"
    /\ dest' = _deep_merge(dest, source, order)
    /\ mpc' = "done"
    /\ UNCHANGED <<dest0, source, source2, alt, order, timeVars, configVars>>

NextMerge == DeepMergeCall

SpecMerge == InitMerge /\ [][NextMerge]_vars

(* Runs on three trees: both nestings                                       *)

InitAssoc ==
    /\ dest0 \in AssocTrees
    /\ source \in AssocTrees
    /\ source2 \in AssocTrees
    /\ order = <<"a", "b">>
    /\ dest = dest0
    /\ alt = NoneV
    /\ mpc = "start"
    /\ TimeIdle /\ ConfigIdle

\* _deep_merge(A, B); _deep_merge(A, C) gives dest, and on fresh copies of the
\* three trees _deep_merge(B, C); _deep_merge(A, B) gives alt
MergeBothNestings ==
    /\ mpc = "start"
    /\ dest' = _deep_merge(_deep_merge(dest, source, order), source2, order)
    /\ alt' = _deep_merge(dest0, _deep_merge(source, source2, order), order)
    /\ mpc' = "done"
    /\ UNCHANGED <<dest0, source, source2, order, timeVars, configVars>>

NextAssoc == MergeBothNestings

SpecAssoc == InitAssoc /\ [][NextAssoc]_vars

----------------------------------------------------------------------------
(* C4 and C5                                                                *)

RECURSIVE RefMerge(_, _)
\* the reference merge of two dicts
RefMerge(d, s) ==
    Dict([k \in DOMAIN d.v \cup DOMAIN s.v |->
            IF k \notin DOMAIN s.v THEN d.v[k]
            ELSE IF k \notin DOMAIN d.v THEN s.v[k]
            ELSE IF IsDict(d.v[k]) /\ IsDict(s.v[k]) THEN RefMerge(d.v[k], s.v[k])
            ELSE s.v[k]])

\* C4: after _deep_merge(dest, source), dest is the reference merge of the
\* original dest and source: union of keys at every level, dest-only keys
\* kept, source-only keys taken, two dicts merged recursively, any other
\* collision resolved to source's value unchanged.
C4_MergeIsReference == mpc = "done" => dest = RefMerge(dest0, source)

\* two dicts under one key were merged into a dict that is neither of them
C4_Witness ==
    /\ mpc = "done"
    /\ \E k \in DOMAIN dest0.v \cap DOMAIN source.v :
          /\ IsDict(dest0.v[k]) /\ IsDict(source.v[k])
          /\ dest.v[k] \notin {dest0.v[k], source.v[k]}

\* C5 as stated: merge(merge(A, B), C) = merge(A, merge(B, C)) for all trees
\* A, B, C whose values are scalars or nested mappings.
C5_Associative == mpc = "done" => dest = alt

RECURSIVE Clash(_, _, _)
\* some key path holds dicts in a and c and a non-dict in b
Clash(a, b, c) ==
    \E k \in (DOMAIN a.v \cap DOMAIN b.v) \cap DOMAIN c.v :
        /\ IsDict(a.v[k]) /\ IsDict(c.v[k])
        /\ (~IsDict(b.v[k]) \/ Clash(a.v[k], b.v[k], c.v[k]))

\* C5 amended: merge(merge(A, B), C) = merge(A, merge(B, C)) for all trees
\* A, B, C in which no key path holds mappings in A and in C and a
\* non-mapping value in B.
C5_AssociativeWithoutClash ==
    mpc = "done" /\ ~Clash(dest0, source, source2) => dest = alt

\* three non-empty dicts under one key were merged, in both nestings
C5_Witness ==
    /\ mpc = "done"
    /\ ~Clash(dest0, source, source2)
    /\ \E k \in (DOMAIN dest0.v \cap DOMAIN source.v) \cap DOMAIN source2.v :
          /\ IsDict(dest0.v[k]) /\ IsDict(source.v[k]) /\ IsDict(source2.v[k])
          /\ dest0.v[k].v # EmptyMap /\ source.v[k].v # EmptyMap /\ source2.v[k].v # EmptyMap
          /\ dest.v[k] \notin {dest0.v[k], source.v[k]}

----------------------------------------------------------------------------
(* total_time.py: calculate_total_time                                      *)
(* A line is a sequence of one-character strings.  A number is an integer   *)
(* written in decimal digits: float() of the tokens this alphabet can form  *)
(* succeeds exactly on a non-empty run of digits.                           *)

MaxLen == 4         \* characters of a line
MaxLines == 2       \* lines of a file
SecondsPerHour == 3600

Alphabet == {"(", "s", "1", "2", "x", " "}
Digits == {"1", "2"}
DigitVal(c) == IF c = "1" THEN 1 ELSE 2
Lines == UNION { [1..n -> Alphabet] : n \in 0..MaxLen }

\* c in line
Contains(ln, c) == \E i \in 1..Len(ln) : ln[i] = c

\* line.index(c): 0-based position of the first c; ValueError (-1) if none
Index(ln, c) ==
    IF Contains(ln, c)
    THEN (CHOOSE i \in 1..Len(ln) : ln[i] = c /\ \A j \in 1..(i - 1) : ln[j] # c) - 1
    ELSE -1

\* line[start:end] for 0 <= start, 0 <= end: empty when end <= start
Slice(ln, start, end) == SubSeq(ln, start + 1, IF end > Len(ln) THEN Len(ln) ELSE end)

RECURSIVE LStrip(_), RStrip(_)
LStrip(s) == IF s # <<>> /\ Head(s) = " " THEN LStrip(Tail(s)) ELSE s
RStrip(s) == IF s # <<>> /\ s[Len(s)] = " " THEN RStrip(SubSeq(s, 1, Len(s) - 1)) ELSE s
\* s.strip()
Strip(s) == LStrip(RStrip(s))

RECURSIVE Decimal(_)
Decimal(s) == IF s = <<>> THEN 0 ELSE 10 * Decimal(SubSeq(s, 1, Len(s) - 1)) + DigitVal(s[Len(s)])

\* float(s): the value, or ValueError
Float(s) ==
    LET w == Strip(s)       \* float() ignores surrounding whitespace itself
    IN IF w # <<>> /\ \A i \in 1..Len(w) : w[i] \in Digits
       THEN [raised |-> "none", val |-> Decimal(w)]
       ELSE [raised |-> "ValueError", val |-> 0]

\* the try block: what it adds to total_seconds, or the exception it raises
TryBody(ln) ==
    LET start_idx == Index(ln, "(") + 1
        end_idx == Index(ln, "s")
    IN IF Index(ln, "(") = -1 \/ end_idx = -1
       THEN [raised |-> "ValueError", val |-> 0]
       ELSE Float(Strip(Slice(ln, start_idx, end_idx)))

\* mutant: the except clause re-raises
LineStepNoExcept(ln) ==
    IF Contains(ln, "(") /\ Contains(ln, "s")
    THEN TryBody(ln)
    ELSE [raised |-> "none", val |-> 0]

\* one iteration of the for loop: the amount added and the exception that
\* leaves the loop ("none": the loop goes on)
LineStep(ln) ==
    IF Contains(ln, "(") /\ Contains(ln, "s")
    THEN LET r == TryBody(ln)
         IN IF r.raised = "ValueError"
            THEN [raised |-> "none", val |-> 0]     \* except ValueError: continue
            ELSE r
    ELSE [raised |-> "none", val |-> 0]

(* the claims' own readings of a line *)

\* the characters strictly between positions i and j (1-based)
Between(ln, i, j) == [k \in 1..(j - i - 1) |-> ln[i + k]]

\* s without its spaces at both ends
Trimmed(s) ==
    LET idx == {i \in 1..Len(s) : s[i] # " "}
    IN IF idx = {} THEN <<>>
       ELSE LET lo == CHOOSE i \in idx : \A j \in idx : i <= j
                hi == CHOOSE i \in idx : \A j \in idx : j <= i
            IN [k \in 1..(hi - lo + 1) |-> s[lo + k - 1]]

IsNumeral(s) == s # <<>> /\ \A i \in 1..Len(s) : s[i] \in Digits

RECURSIVE NumeralValue(_)
NumeralValue(s) == IF s = <<>> THEN 0 ELSE DigitVal(Head(s)) * 10 ^ (Len(s) - 1) + NumeralValue(Tail(s))

FirstPos(ln, c) == CHOOSE i \in 1..Len(ln) : ln[i] = c /\ \A j \in 1..(i - 1) : ln[j] # c

\* the token between the first '(' and the first 's' of the line
SlicedToken(ln) == Trimmed(Between(ln, FirstPos(ln, "("), FirstPos(ln, "s")))

\* the token between the first '(' and the first 's' after that '('
FollowingToken(ln) ==
    LET p == FirstPos(ln, "(")
    IN IF \E j \in (p + 1)..Len(ln) : ln[j] = "s"
       THEN Trimmed(Between(ln, p, CHOOSE j \in (p + 1)..Len(ln) :
                                       ln[j] = "s" /\ \A k \in (p + 1)..(j - 1) : ln[k] # "s"))
       ELSE <<>>

Candidate(ln) == Contains(ln, "(") /\ Contains(ln, "s")
SlicedSeconds(ln) ==
    IF Candidate(ln) /\ IsNumeral(SlicedToken(ln)) THEN NumeralValue(SlicedToken(ln)) ELSE 0
FollowingSeconds(ln) ==
    IF Candidate(ln) /\ IsNumeral(FollowingToken(ln)) THEN NumeralValue(FollowingToken(ln)) ELSE 0

InitTime ==
    /\ line = <<>>
    /\ total_seconds = 0
    /\ total_hours = <<0, 1>>
    /\ nread = 0
    /\ tpc = "loop"
    /\ claimed = 0
    /\ expected = 0
    /\ sawBad = FALSE
    /\ goodAfterBad = FALSE
    /\ MergeIdle /\ ConfigIdle

\* for line in file: the next line is read
ReadLine ==
    /\ tpc = "loop"
    /\ nread < MaxLines
    /\ \E ln \in Lines : line' = ln
    /\ nread' = nread + 1
    /\ tpc' = "body"
    /\ UNCHANGED <<total_seconds, total_hours, claimed, expected, sawBad, goodAfterBad,
                   mergeVars, configVars>>

\* the loop body on the line read (line is <<>> again between iterations)
LoopBody ==
    /\ tpc = "body"
    /\ LET r == LineStep(line)
       IN IF r.raised = "none"
          THEN total_seconds' = total_seconds + r.val /\ tpc' = "loop"
          ELSE total_seconds' = total_seconds /\ tpc' = "raised"
    /\ claimed' = claimed + FollowingSeconds(line)
    /\ expected' = expected + SlicedSeconds(line)
    /\ sawBad' = (sawBad \/ (Candidate(line) /\ ~IsNumeral(SlicedToken(line))))
    /\ goodAfterBad' = (goodAfterBad \/ (sawBad /\ Candidate(line) /\ IsNumeral(SlicedToken(line))))
    /\ line' = <<>>
    /\ UNCHANGED <<total_hours, nread, mergeVars, configVars>>

\* the file is exhausted: total_hours = total_seconds / 3600; return
EndOfFile ==
    /\ tpc = "loop"
    /\ total_hours' = <<total_seconds, SecondsPerHour>>
    /\ tpc' = "done"
    /\ UNCHANGED <<line, total_seconds, nread, claimed, expected, sawBad, goodAfterBad, mergeVars, configVars>>

NextTime == ReadLine \/ LoopBody \/ EndOfFile

SpecTime == InitTime /\ [][NextTime]_vars

\* C1: every line with '(' and 's' adds the number written between the first
\* '(' and the first 's' that follows that '(' (characters before the '(' do
\* not matter), so the total is the sum of those numbers.
C1_FollowingTokenSummed == tpc \in {"loop", "done"} => total_seconds = claimed

\* C9: no line content makes calculate_total_time raise; a line whose sliced
\* token is no number adds zero and later lines are still read; the value
\* returned is the sum of the parseable tokens over 3600, 0/3600 for an
\* empty file.
C9_MalformedLinesSkipped ==
    /\ tpc # "raised"
    /\ (tpc \in {"loop", "done"} => total_seconds = expected)
    /\ (tpc = "done" => total_hours = <<expected, SecondsPerHour>>)

\* a malformed line was read, a later line was parsed and added, and the
\* function returned
C9_Witness ==
    tpc = "done" /\ sawBad /\ goodAfterBad /\ total_seconds > 0

----------------------------------------------------------------------------
(* Python operations on configuration values.  A result is the value, or    *)
(* the exception raised.                                                    *)

Ok(x) == [raised |-> "none", val |-> x]
Raise(e) == [raised |-> e, val |-> NoneV]

\* x[key] for a str key
Subscript(x, key) ==
    IF IsDict(x)
    THEN IF key \in DOMAIN x.v THEN Ok(x.v[key]) ELSE Raise("KeyError")
    ELSE Raise("TypeError")     \* None, a number, a str and a list take no str index

\* x[k1][k2]
Subscript2(x, k1, k2) ==
    LET r == Subscript(x, k1)
    IN IF r.raised # "none" THEN r ELSE Subscript(r.val, k2)

\* x[k1][k2][k3]
Subscript3(x, k1, k2, k3) ==
    LET r == Subscript2(x, k1, k2)
    IN IF r.raised # "none" THEN r ELSE Subscript(r.val, k3)

\* key in x   (the strings of the model contain no other string of the model,
\* so that str containment is equality)
In(key, x) ==
    CASE x.t = "m" -> Ok(key \in DOMAIN x.v)
      [] x.t = "l" -> Ok(FALSE)         \* the lists of the model hold numbers
      [] x.t = "str" -> Ok(x.v = key)
      [] OTHER -> Raise("TypeError")    \* None and numbers are not iterable

\* x.get(key, default)
GetOr(x, key, default) ==
    IF IsDict(x)
    THEN Ok(IF key \in DOMAIN x.v THEN x.v[key] ELSE default)
    ELSE Raise("AttributeError")

\* bool(x)
Truthy(x) ==
    CASE x.t = "none" -> FALSE
      [] x.t = "m" -> x.v # EmptyMap
      [] x.t = "l" -> x.v # <<>>
      [] x.t = "str" -> x.v # ""
      [] OTHER -> x.v # 0

----------------------------------------------------------------------------
(* ConfigManager accessors; cfg is self.config                              *)

\* get_matlab_path: the arguments of .get are evaluated before the call,
\* after the object .get is taken from
get_matlab_path(cfg, environment) ==
    LET m == Subscript2(cfg, "global", "matlab")
    IN IF m.raised # "none" THEN m
       ELSE IF ~IsDict(m.val) THEN Raise("AttributeError")
       ELSE LET fallback == Subscript3(cfg, "global", "matlab", "local")
            IN IF fallback.raised # "none" THEN fallback
               ELSE GetOr(m.val, environment, fallback.val)

get_eeglab_path(cfg) == Subscript3(cfg, "global", "eeglab", "path")

get_matlab_startup_options(cfg) == Subscript3(cfg, "global", "eeglab", "startup_options")

\* mutant: the entry is looked up without the membership test
GetImplementationConfigUnguarded(cfg, implementation) ==
    LET r == Subscript2(cfg, "implementations", implementation)
    IN [raised |-> r.raised, val |-> r.val, warned |-> FALSE]

\* get_implementation_config; warned: logger.warning was called
get_implementation_config(cfg, implementation) ==
    LET sec == Subscript(cfg, "implementations")
    IN IF sec.raised # "none" THEN [raised |-> sec.raised, val |-> NoneV, warned |-> FALSE]
       ELSE LET found == In(implementation, sec.val)
            IN IF found.raised # "none"
               THEN [raised |-> found.raised, val |-> NoneV, warned |-> FALSE]
               ELSE IF found.val
               THEN LET r == Subscript2(cfg, "implementations", implementation)
                    IN [raised |-> r.raised, val |-> r.val, warned |-> FALSE]
               ELSE [raised |-> "none", val |-> Dict(EmptyMap), warned |-> TRUE]

get_amica_params(cfg) == Subscript2(cfg, "global", "amica")

get_project_structure(cfg) == Subscript2(cfg, "project", "structure")

\* mutant: the project structure is exported for every implementation
ExportAlwaysProject(cfg, implementation) ==
    LET amica == get_amica_params(cfg)
        impl == get_implementation_config(cfg, implementation)
        eeglab == get_eeglab_path(cfg)
        project == get_project_structure(cfg)
        none == [raised |-> "none", val |-> NoneV, warned |-> FALSE]
    IN IF amica.raised # "none" THEN [none EXCEPT !.raised = amica.raised]
       ELSE IF impl.raised # "none" THEN [none EXCEPT !.raised = impl.raised]
       ELSE IF eeglab.raised # "none"
       THEN [none EXCEPT !.raised = eeglab.raised, !.warned = impl.warned]
       ELSE IF project.raised # "none"
       THEN [none EXCEPT !.raised = project.raised, !.warned = impl.warned]
       ELSE [raised |-> "none", warned |-> impl.warned,
             val |-> Dict([amica |-> amica.val, implementation |-> impl.val,
                           eeglab_path |-> eeglab.val, project |-> project.val])]

\* export_matlab_config: the mapping written to the temporary file (val), or
\* the exception raised before any file is created
export_matlab_config(cfg, implementation) ==
    LET amica == get_amica_params(cfg)
        impl == get_implementation_config(cfg, implementation)
        eeglab == get_eeglab_path(cfg)
        project == get_project_structure(cfg)
        none == [raised |-> "none", val |-> NoneV, warned |-> FALSE]
        base == [amica |-> amica.val, implementation |-> impl.val, eeglab_path |-> eeglab.val]
    IN IF amica.raised # "none" THEN [none EXCEPT !.raised = amica.raised]
       ELSE IF impl.raised # "none" THEN [none EXCEPT !.raised = impl.raised]
       ELSE IF eeglab.raised # "none"
       THEN [none EXCEPT !.raised = eeglab.raised, !.warned = impl.warned]
       ELSE IF implementation = "strengthen"
       THEN IF project.raised # "none"
            THEN [none EXCEPT !.raised = project.raised, !.warned = impl.warned]
            ELSE [raised |-> "none", warned |-> impl.warned,
                  val |-> Dict(("project" :> project.val) @@ base)]
       ELSE [raised |-> "none", val |-> Dict(base), warned |-> impl.warned]

----------------------------------------------------------------------------
(* Configuration documents of the model                                     *)

Implementations == {"parallel", "serial", "strengthen"}     \* argparse choices
Environments == {"local", "server", "container"}

\* dict with the given entries: a function on strings
AmicaParams == Dict([max_iter |-> Scalar(2000)])
Profile(n) == Dict([max_threads |-> Scalar(n)])
Structure == Dict([raw |-> Str("data")])

LoggingSections ==
    { Scalar(1),                                        \* not a mapping
      Dict(EmptyMap),                                   \* no log_dir
      Dict([log_dir |-> Str("logs")]),                  \* no file_format
      Dict([log_dir |-> Str("logs"), file_format |-> Str("run_{timestamp}.log")]),
      Dict([log_dir |-> Str("logs"), file_format |-> Str("run_{timestamp}.log"),
            level |-> Str("DEBUG")]),
      Dict([log_dir |-> Str("logs"), file_format |-> Str("run_{timestamp}.log"),
            level |-> Str("BOGUS")]) }

ImplementationSections ==
    { NoneV,
      Dict(EmptyMap),
      Dict([parallel |-> Dict(EmptyMap), serial |-> Profile(1)]),
      Dict([parallel |-> Profile(4), serial |-> Profile(1), strengthen |-> Profile(2)]) }

EeglabSections == { Dict(EmptyMap), Dict([path |-> Str("/opt/eeglab")]) }

MatlabSections ==
    { Str("matlab"),
      Dict(EmptyMap),
      Dict([local |-> Str("/usr/bin/matlab")]),
      Dict([server |-> Str("/opt/matlab")]),
      Dict([local |-> Str("/usr/bin/matlab"), server |-> Str("/opt/matlab")]) }

ProjectSections == { Dict(EmptyMap), Dict([structure |-> Structure]) }

\* the dicts whose keys are some of the given keys, each with a value of its set
RECURSIVE Sections(_, _)
Sections(keys, choices) ==
    IF keys = {} THEN {EmptyMap}
    ELSE LET k == CHOOSE x \in keys : TRUE
             rest == Sections(keys \ {k}, choices)
         IN rest \cup { (k :> val) @@ f : val \in choices[k], f \in rest }

\* "global" sections for the command line (nothing reads global.matlab there)
CliGlobalSections ==
    { Dict(f) : f \in Sections({"amica", "eeglab"},
                               [amica |-> {AmicaParams}, eeglab |-> EeglabSections]) }

\* "global" sections for the accessors
ApiGlobalSections ==
    { Dict(f) : f \in Sections({"amica", "eeglab", "matlab"},
                               [amica |-> {AmicaParams}, eeglab |-> EeglabSections,
                                matlab |-> MatlabSections]) }

\* values yaml.safe_load returns for a document that is no mapping
NonMappings == {NoneV, Str("text"), Scalar(5), ListV(<<1>>)}

CliConfigs ==
    { Dict(f) : f \in Sections({"logging", "implementations", "global", "project"},
                               [logging |-> LoggingSections,
                                implementations |-> ImplementationSections,
                                global |-> CliGlobalSections,
                                project |-> ProjectSections]) }

ApiConfigs ==
    { Dict(f) : f \in Sections({"implementations", "global", "project"},
                               [implementations |-> ImplementationSections,
                                global |-> ApiGlobalSections \cup {NoneV},
                                project |-> ProjectSections]) }

\* a file: missing, not YAML, or a YAML document with its parsed value
Missing == [kind |-> "missing", value |-> NoneV]
Malformed == [kind |-> "malformed", value |-> NoneV]
Yaml(x) == [kind |-> "yaml", value |-> x]

BaseFiles == {Missing, Malformed} \cup { Yaml(x) : x \in CliConfigs \cup NonMappings }

OverrideFiles ==
    {Missing, Malformed} \cup
    { Yaml(x) : x \in NonMappings \cup
        { Dict(EmptyMap),
          Dict([logging |-> Dict([level |-> Str("DEBUG")])]),
          Dict([global |-> Dict([amica |-> Dict([max_iter |-> Scalar(9)])]),
                implementations |-> Scalar(0)]) } }

\* with open(path) as file: yaml.safe_load(file)
SafeLoad(file) ==
    CASE file.kind = "missing" -> Raise("FileNotFoundError")
      [] file.kind = "malformed" -> Raise("YAMLError")
      [] OTHER -> Ok(file.value)

----------------------------------------------------------------------------
(* ConfigManager construction                                               *)

NoArg == "None"     \* an option that was not given (None)

\* the names of logging's levels
LevelNames == {"CRITICAL", "FATAL", "ERROR", "WARNING", "WARN", "INFO", "DEBUG", "NOTSET"}

\* the key order of the documents of the model
DocKeyOrder ==
    <<"logging", "implementations", "global", "project", "amica", "eeglab", "matlab",
      "level", "max_iter">>

\* mutant: a non-mapping override replaces the configuration
LoadCustomReplaces(cfg, file) ==
    LET loaded == SafeLoad(file)
    IN IF loaded.raised # "none" THEN [config |-> cfg, raised |-> loaded.raised]
       ELSE IF ~IsDict(loaded.val) THEN [config |-> loaded.val, raised |-> "none"]
       ELSE IF ~IsDict(cfg) THEN [config |-> loaded.val, raised |-> "none"]
       ELSE [config |-> _deep_merge(cfg, loaded.val, DocKeyOrder), raised |-> "none"]

\* _load_custom_config: self.config afterwards, and the exception its
\* except clause caught and logged ("none": the merge was done)
_load_custom_config(cfg, file) ==
    LET loaded == SafeLoad(file)
    IN IF loaded.raised # "none" THEN [config |-> cfg, raised |-> loaded.raised]
       ELSE IF ~IsDict(loaded.val)
       THEN [config |-> cfg, raised |-> "AttributeError"]      \* source.items()
       ELSE IF ~IsDict(cfg) /\ loaded.val.v # EmptyMap
       THEN [config |-> cfg, raised |-> "TypeError"]   \* key in dest, or dest[key] = value
       ELSE IF ~IsDict(cfg) THEN [config |-> cfg, raised |-> "none"]   \* nothing to iterate
       ELSE [config |-> _deep_merge(cfg, loaded.val, DocKeyOrder), raised |-> "none"]

\* _setup_logging: whether a file handler was added, or the exception raised.
\* Creating the directory and opening the log file are taken to succeed.
_setup_logging(cfg) ==
    LET none == [raised |-> "none", handler |-> FALSE]
        has == In("logging", cfg)
        lc == Subscript(cfg, "logging")
        dir == GetOr(lc.val, "log_dir", NoneV)
        ff == Subscript(lc.val, "file_format")
        lvl == GetOr(lc.val, "level", Str("INFO"))
    IN IF has.raised # "none" THEN [none EXCEPT !.raised = has.raised]
       ELSE IF ~has.val THEN none
       ELSE IF lc.raised # "none" THEN [none EXCEPT !.raised = lc.raised]
       ELSE IF dir.raised # "none" THEN [none EXCEPT !.raised = dir.raised]
       ELSE IF ~Truthy(dir.val) THEN none
       ELSE IF dir.val.t # "str" THEN [none EXCEPT !.raised = "TypeError"]   \* BASE_DIR / x
       ELSE IF ff.raised # "none" THEN [none EXCEPT !.raised = ff.raised]
       ELSE IF ff.val.t # "str" THEN [none EXCEPT !.raised = "AttributeError"] \* x.format
       ELSE IF lvl.val.t # "str" THEN [none EXCEPT !.raised = "TypeError"]    \* getattr
       ELSE IF lvl.val.v \notin LevelNames
       THEN [none EXCEPT !.raised = "AttributeError"]
       ELSE [raised |-> "none", handler |-> TRUE]

----------------------------------------------------------------------------
(* Calls of the accessors on a constructed ConfigManager                    *)

ProfileNames == Implementations \cup {"unknown"}
EnvNames == Environments \cup {"unknown"}

InitApi ==
    /\ args = [implementation |-> NoArg, config |-> NoArg, env |-> NoArg,
               export_matlab |-> FALSE]
    /\ environ_config = NoArg /\ detected = "local"
    /\ base_file = Missing /\ custom_file = Missing
    /\ config \in ApiConfigs
    /\ env \in EnvNames
    /\ impl_config = NoneV
    /\ cpc = "constructed" /\ exit_status = 0 /\ uncaught = "none"
    /\ stdout = <<>> /\ temp_files = {} /\ written = NoneV /\ log = {} /\ handler = FALSE
    /\ called = <<>> /\ ret = Ok(NoneV)
    /\ MergeIdle /\ TimeIdle

cliOnly == <<args, environ_config, detected, base_file, custom_file, impl_config, cpc,
             exit_status, uncaught, stdout, handler>>

CallGetMatlabPath ==
    /\ cpc = "constructed"
    /\ called' = <<"get_matlab_path", env>>
    /\ ret' = get_matlab_path(config, env)
    /\ written' = NoneV
    /\ UNCHANGED <<config, env, temp_files, log, cliOnly, mergeVars, timeVars>>

CallGetEeglabPath ==
    /\ cpc = "constructed"
    /\ called' = <<"get_eeglab_path", "">>
    /\ ret' = get_eeglab_path(config)
    /\ written' = NoneV
    /\ UNCHANGED <<config, env, temp_files, log, cliOnly, mergeVars, timeVars>>

CallGetMatlabStartupOptions ==
    /\ cpc = "constructed"
    /\ called' = <<"get_matlab_startup_options", "">>
    /\ ret' = get_matlab_startup_options(config)
    /\ written' = NoneV
    /\ UNCHANGED <<config, env, temp_files, log, cliOnly, mergeVars, timeVars>>

CallGetAmicaParams ==
    /\ cpc = "constructed"
    /\ called' = <<"get_amica_params", "">>
    /\ ret' = get_amica_params(config)
    /\ written' = NoneV
    /\ UNCHANGED <<config, env, temp_files, log, cliOnly, mergeVars, timeVars>>

CallGetProjectStructure ==
    /\ cpc = "constructed"
    /\ called' = <<"get_project_structure", "">>
    /\ ret' = get_project_structure(config)
    /\ written' = NoneV
    /\ UNCHANGED <<config, env, temp_files, log, cliOnly, mergeVars, timeVars>>

CallGetImplementationConfig ==
    /\ cpc = "constructed"
    /\ \E name \in ProfileNames :
        LET r == get_implementation_config(config, name)
        IN /\ called' = <<"get_implementation_config", name>>
           /\ ret' = [raised |-> r.raised, val |-> r.val]
           /\ log' = IF r.warned THEN log \cup {"WARNING: no configuration found"} ELSE log
    /\ written' = NoneV
    /\ UNCHANGED <<config, env, temp_files, cliOnly, mergeVars, timeVars>>

CallExportMatlabConfig ==
    /\ cpc = "constructed"
    /\ \E name \in ProfileNames :
        LET r == export_matlab_config(config, name)
        IN /\ called' = <<"export_matlab_config", name>>
           /\ log' = IF r.warned THEN log \cup {"WARNING: no configuration found"} ELSE log
           /\ IF r.raised = "none"
              THEN /\ temp_files' = temp_files \cup {r.val}
                   /\ written' = r.val
                   /\ ret' = Ok(Str("tmp.json"))
              ELSE /\ temp_files' = temp_files
                   /\ written' = NoneV
                   /\ ret' = Raise(r.raised)
    /\ UNCHANGED <<config, env, cliOnly, mergeVars, timeVars>>

NextApi ==
    \/ CallGetMatlabPath
    \/ CallGetEeglabPath
    \/ CallGetMatlabStartupOptions
    \/ CallGetAmicaParams
    \/ CallGetProjectStructure
    \/ CallGetImplementationConfig
    \/ CallExportMatlabConfig

SpecApi == InitApi /\ [][NextApi]_vars

----------------------------------------------------------------------------
(* main: one run of the command line                                        *)

CliArgs ==
    [implementation : Implementations \cup {NoArg},
     config : {NoArg, "custom.yml"},
     env : {NoArg, "server"},
     export_matlab : BOOLEAN]

InitCli ==
    /\ args \in CliArgs
    /\ environ_config \in {NoArg, "env.yml"}
    /\ ~(args.config # NoArg /\ environ_config # NoArg)
    /\ detected \in (IF args.env = NoArg THEN {"local", "container"} ELSE {"local"})
    /\ base_file \in BaseFiles
    /\ custom_file \in (IF args.config = NoArg /\ environ_config = NoArg
                        THEN {Missing} ELSE OverrideFiles)
    /\ config = Dict(EmptyMap)
    /\ env = NoArg
    /\ impl_config = NoneV
    /\ cpc = "load_default" /\ exit_status = 0 /\ uncaught = "none"
    /\ stdout = <<>> /\ temp_files = {} /\ written = NoneV /\ log = {} /\ handler = FALSE
    /\ called = <<>> /\ ret = Ok(NoneV)
    /\ MergeIdle /\ TimeIdle

cliInputs == <<args, environ_config, detected, base_file, custom_file>>

\* an exception nobody catches ends the run: traceback, exit status 1
Crash(e) ==
    /\ uncaught' = e
    /\ exit_status' = 1
    /\ cpc' = "exited"

\* ConfigManager.__init__ up to _load_default_config
LoadDefaultConfig ==
    /\ cpc = "load_default"
    /\ env' = IF args.env # NoArg THEN args.env ELSE detected
    /\ LET loaded == SafeLoad(base_file)
       IN IF loaded.raised = "none"
          THEN /\ config' = loaded.val
               /\ cpc' = "load_custom"
               /\ UNCHANGED <<log, exit_status>>
          ELSE /\ log' = log \cup {"ERROR: Error loading default config"}
               /\ exit_status' = 1         \* sys.exit(1)
               /\ cpc' = "exited"
               /\ UNCHANGED config
    /\ UNCHANGED <<cliInputs, impl_config, uncaught, stdout, temp_files, written, handler,
                   called, ret, mergeVars, timeVars>>

\* the override path __init__ uses: config_file, else the environment variable
OverridePath ==
    IF args.config # NoArg THEN args.config ELSE environ_config

\* _load_custom_config(path)
LoadCustomConfig ==
    /\ cpc = "load_custom"
    /\ OverridePath # NoArg
    /\ LET r == _load_custom_config(config, custom_file)
       IN /\ config' = r.config
          /\ log' = IF r.raised = "none" THEN log
                    ELSE log \cup {"ERROR: Error loading custom config"}
    /\ cpc' = "setup_logging"
    /\ UNCHANGED <<cliInputs, env, impl_config, exit_status, uncaught, stdout, temp_files,
                   written, handler, called, ret, mergeVars, timeVars>>

\* neither config_file nor FAST_ICA_CONFIG is set
NoCustomConfig ==
    /\ cpc = "load_custom"
    /\ OverridePath = NoArg
    /\ cpc' = "setup_logging"
    /\ UNCHANGED <<cliInputs, config, env, impl_config, exit_status, uncaught, stdout,
                   temp_files, written, log, handler, called, ret, mergeVars, timeVars>>

\* _setup_logging, then the end of __init__
SetupLogging ==
    /\ cpc = "setup_logging"
    /\ LET r == _setup_logging(config)
       IN IF r.raised = "none"
          THEN /\ handler' = r.handler
               /\ cpc' = "get_config"
               /\ UNCHANGED <<uncaught, exit_status>>
          ELSE /\ Crash(r.raised)
               /\ UNCHANGED handler
    /\ UNCHANGED <<cliInputs, config, env, impl_config, stdout, temp_files, written, log,
                   called, ret, mergeVars, timeVars>>

\* the rest of get_config: the implementation's configuration, if one is named
GetConfig ==
    /\ cpc = "get_config"
    /\ IF args.implementation # NoArg
       THEN LET r == get_implementation_config(config, args.implementation)
            IN /\ log' = IF r.warned THEN log \cup {"WARNING: no configuration found"}
                         ELSE log
               /\ IF r.raised = "none"
                  THEN /\ impl_config' = r.val
                       /\ cpc' = "output"
                       /\ UNCHANGED <<uncaught, exit_status>>
                  ELSE /\ Crash(r.raised)
                       /\ UNCHANGED impl_config
       ELSE /\ impl_config' = NoneV
            /\ cpc' = "output"
            /\ UNCHANGED <<log, uncaught, exit_status>>
    /\ UNCHANGED <<cliInputs, config, env, stdout, temp_files, written, handler, called, ret,
                   mergeVars, timeVars>>

\* mutant: the flag alone selects the export
ExportFlagAlone(a) == a.export_matlab

\* if args.export_matlab and args.implementation
ExportSelected(a) == a.export_matlab /\ a.implementation # NoArg

\* main: export_matlab_config and the message with the file's path
ExportMatlab ==
    /\ cpc = "output"
    /\ ExportSelected(args)
    /\ LET r == export_matlab_config(config, args.implementation)
       IN /\ log' = IF r.warned THEN log \cup {"WARNING: no configuration found"} ELSE log
          /\ IF r.raised = "none"
             THEN /\ temp_files' = temp_files \cup {r.val}
                  /\ written' = r.val
                  /\ stdout' = Append(stdout, [what |-> "export_path", value |-> Str("tmp.json")])
                  /\ cpc' = "exited"
                  /\ exit_status' = 0
                  /\ UNCHANGED uncaught
             ELSE /\ Crash(r.raised)
                  /\ UNCHANGED <<temp_files, written, stdout>>
    /\ UNCHANGED <<cliInputs, config, env, impl_config, handler, called, ret, mergeVars,
                   timeVars>>

\* main: elif impl_config: print(yaml.dump(impl_config))
PrintImplementation ==
    /\ cpc = "output"
    /\ ~ExportSelected(args)
    /\ Truthy(impl_config)
    /\ stdout' = Append(stdout, [what |-> "impl_config", value |-> impl_config])
    /\ cpc' = "exited"
    /\ exit_status' = 0
    /\ UNCHANGED <<cliInputs, config, env, impl_config, uncaught, temp_files, written, log,
                   handler, called, ret, mergeVars, timeVars>>

\* main: else: print(yaml.dump(config_manager.config))
PrintConfig ==
    /\ cpc = "output"
    /\ ~ExportSelected(args)
    /\ ~Truthy(impl_config)
    /\ stdout' = Append(stdout, [what |-> "config", value |-> config])
    /\ cpc' = "exited"
    /\ exit_status' = 0
    /\ UNCHANGED <<cliInputs, config, env, impl_config, uncaught, temp_files, written, log,
                   handler, called, ret, mergeVars, timeVars>>

NextCli ==
    \/ LoadDefaultConfig
    \/ LoadCustomConfig
    \/ NoCustomConfig
    \/ SetupLogging
    \/ GetConfig
    \/ ExportMatlab
    \/ PrintImplementation
    \/ PrintConfig

SpecCli == InitCli /\ [][NextCli]_vars

----------------------------------------------------------------------------
(* C2, C3, C8: the command line                                             *)

BaseLoads == SafeLoad(base_file).raised = "none"
Printed(kinds) == \E i \in 1..Len(stdout) : stdout[i].what \in kinds

\* C2: a run exits with non-zero status exactly when the base configuration
\* cannot be loaded; that exit comes before any override merge, logging setup
\* or output; nothing else (a base document that is no mapping, an override
\* failure, a missing section or key, logging setup, export) ends the run with
\* a non-zero status.
C2_NonZeroOnlyWhenBaseFails ==
    cpc = "exited" =>
        /\ (exit_status # 0 <=> ~BaseLoads)
        /\ (~BaseLoads => config = Dict(EmptyMap) /\ ~handler /\ stdout = <<>>
                          /\ temp_files = {})

OverrideUnusable == custom_file.kind # "yaml" \/ ~IsDict(custom_file.value)

\* C3: loading an override that cannot be used (missing, malformed, or not a
\* mapping) raises nothing: the step ends with construction going on to the
\* logging setup, the error logged, and self.config exactly the base
\* configuration it was before the load.
C3_UnusableOverrideKeepsBase ==
    [][ (cpc = "load_custom" /\ OverridePath # NoArg /\ OverrideUnusable) =>
            /\ cpc' = "setup_logging"
            /\ uncaught' = "none" /\ exit_status' = 0
            /\ config = base_file.value
            /\ config' = config
            /\ "ERROR: Error loading custom config" \in log' ]_vars

\* an override that parsed to a non-mapping was loaded over a base mapping
C3_Witness ==
    /\ cpc = "setup_logging"
    /\ OverridePath # NoArg
    /\ custom_file.kind = "yaml" /\ ~IsDict(custom_file.value)
    /\ IsDict(config) /\ config.v # EmptyMap
    /\ "ERROR: Error loading custom config" \in log

----------------------------------------------------------------------------
(* C6, C7, C10: the accessors                                               *)

CalledFn == IF called = <<>> THEN "" ELSE called[1]
CalledArg == IF called = <<>> THEN "" ELSE called[2]

\* the dict at cfg[k1][k2], if there is one
HasDictAt2(cfg, k1, k2) ==
    /\ IsDict(cfg) /\ k1 \in DOMAIN cfg.v
    /\ IsDict(cfg.v[k1]) /\ k2 \in DOMAIN cfg.v[k1].v
    /\ IsDict(cfg.v[k1].v[k2])

\* C6: get_matlab_path returns the requested environment's entry whenever it
\* is present, the "local" entry when it is absent and "local" is present, and
\* fails only when neither exists or global.matlab is absent; it does not fail
\* when the requested key is present and "local" is absent.
C6_FallbackOnlyWhenAbsent ==
    CalledFn = "get_matlab_path" =>
        IF HasDictAt2(config, "global", "matlab")
        THEN LET m == config.v["global"].v["matlab"].v
             IN IF env \in DOMAIN m THEN ret = Ok(m[env])
                ELSE IF "local" \in DOMAIN m THEN ret = Ok(m["local"])
                ELSE ret.raised # "none"
        ELSE ret.raised # "none"

HasPath2(cfg, k1, k2) ==
    /\ IsDict(cfg) /\ k1 \in DOMAIN cfg.v
    /\ IsDict(cfg.v[k1]) /\ k2 \in DOMAIN cfg.v[k1].v

HasPath3(cfg, k1, k2, k3) ==
    /\ HasDictAt2(cfg, k1, k2) /\ k3 \in DOMAIN cfg.v[k1].v[k2].v

HasImplementations(cfg) ==
    IsDict(cfg) /\ "implementations" \in DOMAIN cfg.v /\ IsDict(cfg.v["implementations"])

\* C7: export_matlab_config(name) writes a mapping whose keys are exactly
\* amica, implementation, eeglab_path, and project as well exactly when name
\* is "strengthen"; project.structure is looked up (and can fail the export)
\* only for "strengthen"; a name that is no key of the implementations
\* mapping still gives a file, with an empty mapping under implementation.
C7_ExportKeys ==
    CalledFn = "export_matlab_config" =>
        LET name == CalledArg
            othersFound == /\ HasPath2(config, "global", "amica")
                           /\ HasPath3(config, "global", "eeglab", "path")
                           /\ HasImplementations(config)
        IN /\ (ret.raised = "none" =>
                  /\ written \in temp_files
                  /\ IsDict(written)
                  /\ DOMAIN written.v =
                        {"amica", "implementation", "eeglab_path"} \cup
                        (IF name = "strengthen" THEN {"project"} ELSE {})
                  /\ written.v["amica"] = config.v["global"].v["amica"]
                  /\ written.v["eeglab_path"] = config.v["global"].v["eeglab"].v["path"])
           /\ (ret.raised # "none" => written = NoneV)
           /\ (name # "strengthen" /\ othersFound => ret.raised = "none")
           /\ (name = "strengthen" /\ othersFound =>
                  (ret.raised = "none" <=> HasPath2(config, "project", "structure")))
           /\ (othersFound /\ name \notin DOMAIN config.v["implementations"].v
                  /\ ret.raised = "none"
                  => written.v["implementation"] = Dict(EmptyMap))

\* both kinds of file were written: one for "strengthen" with the project
\* structure, one for an unrecognised name with an empty implementation
C7_Witness ==
    /\ CalledFn = "export_matlab_config" /\ CalledArg = "unknown" /\ ret.raised = "none"
    /\ written.v["implementation"] = Dict(EmptyMap)
    /\ \E f \in temp_files : "project" \in DOMAIN f.v

\* C10 as stated: for every configuration tree and every name that is not a
\* key of the "implementations" section, get_implementation_config returns an
\* empty mapping with a warning, never a lookup failure; for a key it returns
\* the entry.
C10_NeverFailsForUnrecognised ==
    CalledFn = "get_implementation_config" =>
        IF HasImplementations(config) /\ CalledArg \in DOMAIN config.v["implementations"].v
        THEN ret = Ok(config.v["implementations"].v[CalledArg])
        ELSE ret = Ok(Dict(EmptyMap)) /\ "WARNING: no configuration found" \in log

\* C10 amended: for every configuration tree that has an "implementations"
\* mapping, get_implementation_config returns an empty mapping with a warning
\* for a name that is no key of it and the entry for a name that is; with no
\* "implementations" key in the tree it propagates the KeyError, as
\* get_amica_params, get_project_structure and get_eeglab_path do when their
\* key is missing.
C10_EmptyForUnrecognisedInSection ==
    /\ (CalledFn = "get_implementation_config" =>
            /\ (HasImplementations(config) =>
                    IF CalledArg \in DOMAIN config.v["implementations"].v
                    THEN ret = Ok(config.v["implementations"].v[CalledArg])
                    ELSE /\ ret = Ok(Dict(EmptyMap))
                         /\ "WARNING: no configuration found" \in log)
            /\ (IsDict(config) /\ "implementations" \notin DOMAIN config.v =>
                    ret = Raise("KeyError")))
    /\ (CalledFn = "get_amica_params" =>
            IF HasPath2(config, "global", "amica")
            THEN ret = Ok(config.v["global"].v["amica"]) ELSE ret.raised # "none")
    /\ (CalledFn = "get_project_structure" =>
            IF HasPath2(config, "project", "structure")
            THEN ret = Ok(config.v["project"].v["structure"]) ELSE ret.raised # "none")
    /\ (CalledFn = "get_eeglab_path" =>
            IF HasPath3(config, "global", "eeglab", "path")
            THEN ret = Ok(config.v["global"].v["eeglab"].v["path"])
            ELSE ret.raised # "none")

\* an unrecognised name was looked up in an implementations mapping that has
\* other entries
C10_Witness ==
    /\ CalledFn = "get_implementation_config" /\ CalledArg = "unknown"
    /\ HasImplementations(config) /\ config.v["implementations"].v # EmptyMap
    /\ ret = Ok(Dict(EmptyMap))
    /\ "WARNING: no configuration found" \in log
====
